---- MODULE Spec2Model ----
(***************************************************************************)
(* Model of the expression parser of rulox (src/parser.rs).                *)
(*                                                                         *)
(* The parser is a recursive descent over a peekable iterator.  The model  *)
(* keeps the token vector, the iterator position and the call stack of     *)
(* the parse functions; every action is one step of one function body.     *)
(* unimplemented!() aborts the parse: the model records which of the three *)
(* sites panicked.                                                         *)
(***************************************************************************)
EXTENDS Integers, Sequences, FiniteSets, TLC

(* ---------------------------------------------------------------------- *)
(* Bounds                                                                  *)
(* ---------------------------------------------------------------------- *)
MaxLen == 3
MaxLongLen == 5

(* ---------------------------------------------------------------------- *)
(* Tokens (scanner::Token, the field the parser reads of TokenWithContext) *)
(* ---------------------------------------------------------------------- *)
Tok(tag) == [tag |-> tag]
NumberToken(n) == [tag |-> "NumberLiteral", n |-> n]
StringToken(s) == [tag |-> "StringLiteral", s |-> s]

LiteralTokens ==
    {Tok("False"), Tok("True"), Tok("Nil"), NumberToken(123), StringToken("a")}

Tokens ==
    LiteralTokens \cup
    {Tok("LeftParen"), Tok("RightParen"), Tok("Minus"), Tok("Plus"),
     Tok("Star"), Tok("Bang"), Tok("EqualEqual"), Tok("Less")}

LongTokens ==
    {NumberToken(1), NumberToken(2), NumberToken(3),
     Tok("Plus"), Tok("Star"), Tok("Bang"), Tok("LeftParen")}

SeqsUpTo(S, n) == UNION {[1..k -> S] : k \in 0..n}

(* ---------------------------------------------------------------------- *)
(* ast: Operator, Literal, Expr                                            *)
(* ---------------------------------------------------------------------- *)
NoOperator == "None"
NoExpr == [kind |-> "None"]

BoolLiteral(b) == [tag |-> "BoolLiteral", b |-> b]
NilLiteral == [tag |-> "NilLiteral"]
NumberLiteral(n) == [tag |-> "NumberLiteral", n |-> n]
StringLiteral(s) == [tag |-> "StringLiteral", s |-> s]

Literal(l) == [kind |-> "Literal", lit |-> l]
Unary(operator, right) ==
    [kind |-> "Unary", operator |-> operator, right |-> right]
Binary(left, operator, right) ==
    [kind |-> "Binary", left |-> left, operator |-> operator, right |-> right]
Grouping(expr) == [kind |-> "Grouping", expr |-> expr]

(* ---------------------------------------------------------------------- *)
(* Peekable<I>: peek and next over the token vector                        *)
(* ---------------------------------------------------------------------- *)
None == [some |-> FALSE]
Some(t) == [some |-> TRUE, token |-> t]

Peek(toks, p) == IF p < Len(toks) THEN Some(toks[p + 1]) ELSE None
IterNext(toks, p) == IF p < Len(toks) THEN p + 1 ELSE p

(* ---------------------------------------------------------------------- *)
(* The map_operator function of each precedence level                      *)
(* ---------------------------------------------------------------------- *)
MapEquality(token) ==
    CASE token.tag = "BangEqual" -> "NotEqual"
      [] token.tag = "EqualEqual" -> "Equal"
      [] OTHER -> NoOperator

MapComparison(token) ==
    CASE token.tag = "Greater" -> "Greater"
      [] token.tag = "GreaterEqual" -> "GreaterEqual"
      [] token.tag = "Less" -> "Less"
      [] token.tag = "LessEqual" -> "LessEqual"
      [] OTHER -> NoOperator

MapTerm(token) ==
    CASE token.tag = "Minus" -> "Minus"
      [] token.tag = "Plus" -> "Plus"
      [] OTHER -> NoOperator

MapFactor(token) ==
    CASE token.tag = "Slash" -> "Slash"
      [] token.tag = "Star" -> "Star"
      [] OTHER -> NoOperator

\* map_operator of parse_unary without the Minus arm
MapUnaryBangOnly(token) ==
    CASE token.tag = "Bang" -> "Bang"
      [] OTHER -> NoOperator

MapUnary(token) ==
    CASE token.tag = "Minus" -> "Minus"
      [] token.tag = "Bang" -> "Bang"
      [] OTHER -> NoOperator

\* map_operator argument parse_binary is called with at each level
MapOperator(level, token) ==
    CASE level = "equality" -> MapEquality(token)
      [] level = "comparison" -> MapComparison(token)
      [] level = "term" -> MapTerm(token)
      [] level = "factor" -> MapFactor(token)

\* parse_subexpression argument parse_binary is called with at each level
SubExpression(level) ==
    CASE level = "equality" -> "comparison"
      [] level = "comparison" -> "term"
      [] level = "term" -> "factor"
      [] level = "factor" -> "unary"

\* the literal arms of the match in parse_primary
IsLiteralToken(token) ==
    token.tag \in {"False", "True", "Nil", "NumberLiteral", "StringLiteral"}

\* the literal arms with the values of False and True exchanged and every
\* number read as 0
PrimaryLiteralSlip(token) ==
    CASE token.tag = "False" -> Literal(BoolLiteral(TRUE))
      [] token.tag = "True" -> Literal(BoolLiteral(FALSE))
      [] token.tag = "Nil" -> Literal(NilLiteral)
      [] token.tag = "NumberLiteral" -> Literal(NumberLiteral(0))
      [] token.tag = "StringLiteral" -> Literal(StringLiteral(token.s))

PrimaryLiteral(token) ==
    CASE token.tag = "False" -> Literal(BoolLiteral(FALSE))
      [] token.tag = "True" -> Literal(BoolLiteral(TRUE))
      [] token.tag = "Nil" -> Literal(NilLiteral)
      [] token.tag = "NumberLiteral" -> Literal(NumberLiteral(token.n))
      [] token.tag = "StringLiteral" -> Literal(StringLiteral(token.s))

\* the test that closes a group in parse_primary
ClosesGroup(token) == token = Tok("LeftParen")

(* ---------------------------------------------------------------------- *)
(* State                                                                   *)
(* ---------------------------------------------------------------------- *)
VARIABLES
    tokens,   \* the Vec<TokenWithContext> handed to parse
    pos,      \* number of tokens the iterator has yielded
    stack,    \* call stack of parse functions, innermost last
    ret,      \* value returned by the call that just finished, or NoExpr
    status,   \* "ready", "running", "returned" or "panicked"
    failure   \* which unimplemented!() panicked, or "none"

vars == <<tokens, pos, stack, ret, status, failure>>

\* a parse_equality / parse_comparison / parse_term / parse_factor call,
\* that is parse_binary with the level's arguments
BinaryFrame(level) ==
    [fn |-> "parse_binary", level |-> level, pc |-> "operand",
     expr |-> NoExpr, peeked |-> None, operator |-> NoOperator]

UnaryFrame ==
    [fn |-> "parse_unary", level |-> "unary", pc |-> "peek",
     expr |-> NoExpr, peeked |-> None, operator |-> NoOperator]

PrimaryFrame ==
    [fn |-> "parse_primary", level |-> "primary", pc |-> "next",
     expr |-> NoExpr, peeked |-> None, operator |-> NoOperator]

\* the frame of the function that parses one level
FrameOf(level) ==
    CASE level = "unary" -> UnaryFrame
      [] level = "primary" -> PrimaryFrame
      [] OTHER -> BinaryFrame(level)

Top == stack[Len(stack)]
Rest == SubSeq(stack, 1, Len(stack) - 1)
Running == status = "running" /\ Len(stack) > 0

\* the top frame is replaced by f and callee is called
Call(f, callee) == Rest \o <<f, callee>>

\* the top frame returns e to its caller (or to parse when it is the last)
Return(e) ==
    /\ stack' = Rest
    /\ ret' = e
    /\ status' = IF Len(stack) = 1 THEN "returned" ELSE "running"
    /\ failure' = failure

\* unimplemented!(): the panic unwinds every frame
Panic(site) ==
    /\ stack' = << >>
    /\ ret' = NoExpr
    /\ status' = "panicked"
    /\ failure' = site

TypeOK ==
    /\ pos \in 0..Len(tokens)
    /\ status \in {"ready", "running", "returned", "panicked"}
    /\ failure \in {"none", "no_token", "unexpected_token", "unclosed_group"}

Init ==
    /\ tokens \in SeqsUpTo(Tokens, MaxLen)
    /\ pos = 0
    /\ stack = << >>
    /\ ret = NoExpr
    /\ status = "ready"
    /\ failure = "none"

InitLong ==
    /\ tokens \in SeqsUpTo(LongTokens, MaxLongLen)
    /\ pos = 0
    /\ stack = << >>
    /\ ret = NoExpr
    /\ status = "ready"
    /\ failure = "none"

(* ---------------------------------------------------------------------- *)
(* parse / parse_expression                                                *)
(* ---------------------------------------------------------------------- *)
\* parse: make the iterator and call parse_expression, which calls
\* parse_equality
Parse ==
    /\ status = "ready"
    /\ status' = "running"
    /\ stack' = <<BinaryFrame("equality")>>
    /\ UNCHANGED <<tokens, pos, ret, failure>>

(* ---------------------------------------------------------------------- *)
(* parse_binary                                                            *)
(* ---------------------------------------------------------------------- *)
\* expr = parse_subexpression(tokens): the call
BinaryOperand ==
    /\ Running /\ Top.fn = "parse_binary" /\ Top.pc = "operand"
    /\ stack' = Call([Top EXCEPT !.pc = "peek"], FrameOf(SubExpression(Top.level)))
    /\ UNCHANGED <<tokens, pos, ret, status, failure>>

\* the operand is back: expr is set and the next token is peeked, once
BinaryPeek ==
    /\ Running /\ Top.fn = "parse_binary" /\ Top.pc = "peek"
    /\ ret # NoExpr
    /\ stack' = Rest \o <<[Top EXCEPT !.pc = "loop", !.expr = ret,
                                      !.peeked = Peek(tokens, pos)]>>
    /\ ret' = NoExpr
    /\ UNCHANGED <<tokens, pos, status, failure>>

\* while let Some(..) = peeked_token, the operator is recognized: advance
\* and call parse_subexpression for the right operand
BinaryAdvance ==
    /\ Running /\ Top.fn = "parse_binary" /\ Top.pc = "loop"
    /\ Top.peeked.some
    /\ MapOperator(Top.level, Top.peeked.token) # NoOperator
    /\ pos' = IterNext(tokens, pos)
    /\ stack' = Call([Top EXCEPT !.pc = "right",
                         !.operator = MapOperator(Top.level, Top.peeked.token)],
                     FrameOf(SubExpression(Top.level)))
    /\ UNCHANGED <<tokens, ret, status, failure>>

\* the right operand is back: expr becomes the Binary node and the loop
\* tests peeked_token again
BinaryFold ==
    /\ Running /\ Top.fn = "parse_binary" /\ Top.pc = "right"
    /\ ret # NoExpr
    /\ stack' = Rest \o <<[Top EXCEPT !.pc = "loop",
                              !.expr = Binary(Top.expr, Top.operator, ret),
                              !.operator = NoOperator]>>
    /\ ret' = NoExpr
    /\ UNCHANGED <<tokens, pos, status, failure>>

\* the peeked token is no operator of the level: break, return expr
BinaryBreak ==
    /\ Running /\ Top.fn = "parse_binary" /\ Top.pc = "loop"
    /\ Top.peeked.some
    /\ MapOperator(Top.level, Top.peeked.token) = NoOperator
    /\ Return(Top.expr)
    /\ UNCHANGED <<tokens, pos>>

\* nothing was peeked: the while let does not match, return expr
BinaryEnd ==
    /\ Running /\ Top.fn = "parse_binary" /\ Top.pc = "loop"
    /\ ~Top.peeked.some
    /\ Return(Top.expr)
    /\ UNCHANGED <<tokens, pos>>

(* ---------------------------------------------------------------------- *)
(* parse_unary                                                             *)
(* ---------------------------------------------------------------------- *)
\* a prefix operator is peeked: advance and call parse_unary
UnaryOperator ==
    /\ Running /\ Top.fn = "parse_unary" /\ Top.pc = "peek"
    /\ Peek(tokens, pos).some
    /\ MapUnary(Peek(tokens, pos).token) # NoOperator
    /\ pos' = IterNext(tokens, pos)
    /\ stack' = Call([Top EXCEPT !.pc = "right",
                         !.peeked = Peek(tokens, pos),
                         !.operator = MapUnary(Peek(tokens, pos).token)],
                     UnaryFrame)
    /\ UNCHANGED <<tokens, ret, status, failure>>

\* the operand is back: return the Unary node
UnaryWrap ==
    /\ Running /\ Top.fn = "parse_unary" /\ Top.pc = "right"
    /\ ret # NoExpr
    /\ Return(Unary(Top.operator, ret))
    /\ UNCHANGED <<tokens, pos>>

\* nothing or no prefix operator is peeked: call parse_primary
UnaryPrimary ==
    /\ Running /\ Top.fn = "parse_unary" /\ Top.pc = "peek"
    /\ \/ ~Peek(tokens, pos).some
       \/ /\ Peek(tokens, pos).some
          /\ MapUnary(Peek(tokens, pos).token) = NoOperator
    /\ stack' = Call([Top EXCEPT !.pc = "primary",
                         !.peeked = Peek(tokens, pos)], PrimaryFrame)
    /\ UNCHANGED <<tokens, pos, ret, status, failure>>

\* parse_primary is back: its value is the value of parse_unary
UnaryReturn ==
    /\ Running /\ Top.fn = "parse_unary" /\ Top.pc = "primary"
    /\ ret # NoExpr
    /\ Return(ret)
    /\ UNCHANGED <<tokens, pos>>

(* ---------------------------------------------------------------------- *)
(* parse_primary                                                           *)
(* ---------------------------------------------------------------------- *)
\* tokens.next() is None and a Nil literal is returned in place of the panic
PrimaryNoTokenNil ==
    /\ Running /\ Top.fn = "parse_primary" /\ Top.pc = "next"
    /\ ~Peek(tokens, pos).some
    /\ Return(Literal(NilLiteral))
    /\ UNCHANGED <<tokens, pos>>

\* tokens.next() is None
PrimaryNoToken ==
    /\ Running /\ Top.fn = "parse_primary" /\ Top.pc = "next"
    /\ ~Peek(tokens, pos).some
    /\ Panic("no_token")
    /\ UNCHANGED <<tokens, pos>>

\* a literal token
PrimaryLiteralToken ==
    /\ Running /\ Top.fn = "parse_primary" /\ Top.pc = "next"
    /\ Peek(tokens, pos).some
    /\ IsLiteralToken(Peek(tokens, pos).token)
    /\ pos' = IterNext(tokens, pos)
    /\ Return(PrimaryLiteral(Peek(tokens, pos).token))
    /\ UNCHANGED tokens

\* Token::LeftParen: call parse_expression
PrimaryLeftParen ==
    /\ Running /\ Top.fn = "parse_primary" /\ Top.pc = "next"
    /\ Peek(tokens, pos).some
    /\ Peek(tokens, pos).token.tag = "LeftParen"
    /\ pos' = IterNext(tokens, pos)
    /\ stack' = Call([Top EXCEPT !.pc = "close"], BinaryFrame("equality"))
    /\ UNCHANGED <<tokens, ret, status, failure>>

\* any other token
PrimaryOther ==
    /\ Running /\ Top.fn = "parse_primary" /\ Top.pc = "next"
    /\ Peek(tokens, pos).some
    /\ ~IsLiteralToken(Peek(tokens, pos).token)
    /\ Peek(tokens, pos).token.tag # "LeftParen"
    /\ pos' = IterNext(tokens, pos)
    /\ Panic("unexpected_token")
    /\ UNCHANGED tokens

\* the inner expression is back and the next token closes the group
PrimaryGrouping ==
    /\ Running /\ Top.fn = "parse_primary" /\ Top.pc = "close"
    /\ ret # NoExpr
    /\ Peek(tokens, pos).some
    /\ ClosesGroup(Peek(tokens, pos).token)
    /\ pos' = IterNext(tokens, pos)
    /\ Return(Grouping(ret))
    /\ UNCHANGED tokens

\* the inner expression is back and the group is not closed
PrimaryUnclosed ==
    /\ Running /\ Top.fn = "parse_primary" /\ Top.pc = "close"
    /\ ret # NoExpr
    /\ \/ ~Peek(tokens, pos).some
       \/ /\ Peek(tokens, pos).some
          /\ ~ClosesGroup(Peek(tokens, pos).token)
    /\ pos' = IterNext(tokens, pos)
    /\ Panic("unclosed_group")
    /\ UNCHANGED tokens

Next ==
    \/ Parse
    \/ BinaryOperand
    \/ BinaryPeek
    \/ BinaryAdvance
    \/ BinaryFold
    \/ BinaryBreak
    \/ BinaryEnd
    \/ UnaryOperator
    \/ UnaryWrap
    \/ UnaryPrimary
    \/ UnaryReturn
    \/ PrimaryNoToken
    \/ PrimaryLiteralToken
    \/ PrimaryLeftParen
    \/ PrimaryOther
    \/ PrimaryGrouping
    \/ PrimaryUnclosed

Spec == Init /\ [][Next]_vars
SpecLong == InitLong /\ [][Next]_vars

\* parse runs to its end on one thread: a step that can be taken is taken
FairSpecLong == SpecLong /\ WF_vars(Next)

(* ---------------------------------------------------------------------- *)
(* Properties                                                              *)
(* ---------------------------------------------------------------------- *)
Done == status \in {"returned", "panicked"}
BinaryLevels == {"equality", "comparison", "term", "factor"}
AtLoop == Running /\ Top.fn = "parse_binary" /\ Top.pc = "loop"
AtClose ==
    Running /\ Top.fn = "parse_primary" /\ Top.pc = "close" /\ ret # NoExpr

\* literal, operator, literal, ... , literal with every operator of level
Chain(toks, level, n) ==
    /\ n \in 1..Len(toks) /\ n % 2 = 1
    /\ \A i \in 1..n :
          IF i % 2 = 1 THEN IsLiteralToken(toks[i])
          ELSE MapOperator(level, toks[i]) # NoOperator

\* the left-nested tree of the chain made of the first n tokens
RECURSIVE LeftNested(_, _, _)
LeftNested(toks, level, n) ==
    IF n = 1 THEN PrimaryLiteral(toks[1])
    ELSE Binary(LeftNested(toks, level, n - 2),
                MapOperator(level, toks[n - 1]),
                PrimaryLiteral(toks[n]))

\* the Unary nodes of the prefix operators from position i on
RECURSIVE UnaryNested(_, _)
UnaryNested(toks, i) ==
    IF i = Len(toks) THEN PrimaryLiteral(toks[i])
    ELSE Unary(toks[i].tag, UnaryNested(toks, i + 1))

PrefixChain(toks) ==
    /\ Len(toks) >= 2
    /\ \A i \in 1..(Len(toks) - 1) : toks[i].tag \in {"Bang", "Minus"}
    /\ IsLiteralToken(toks[Len(toks)])

\* C1: a chain of N >= 2 literals joined by operators of one precedence
\* level parses to the left-nested tree of N-1 Binary nodes.
C1_LeftAssociative ==
    \A level \in BinaryLevels :
        (Len(tokens) >= 3 /\ Chain(tokens, level, Len(tokens)) /\ Done) =>
            /\ status = "returned"
            /\ ret = LeftNested(tokens, level, Len(tokens))

\* C2: in literal, term operator, literal, factor operator, literal (as in
\* 1+2*3) the root is the term operator and the factor operator is its right
\* child; with the operators in the other order the factor operator is the
\* left child of the term operator.
C2_Precedence ==
    (/\ Len(tokens) = 5 /\ Done
     /\ \A i \in {1, 3, 5} : IsLiteralToken(tokens[i])) =>
        /\ (MapTerm(tokens[2]) # NoOperator /\ MapFactor(tokens[4]) # NoOperator) =>
              /\ status = "returned"
              /\ ret = Binary(PrimaryLiteral(tokens[1]), MapTerm(tokens[2]),
                              Binary(PrimaryLiteral(tokens[3]), MapFactor(tokens[4]),
                                     PrimaryLiteral(tokens[5])))
        /\ (MapFactor(tokens[2]) # NoOperator /\ MapTerm(tokens[4]) # NoOperator) =>
              /\ status = "returned"
              /\ ret = Binary(Binary(PrimaryLiteral(tokens[1]), MapFactor(tokens[2]),
                                     PrimaryLiteral(tokens[3])),
                              MapTerm(tokens[4]), PrimaryLiteral(tokens[5]))

\* C3: when the expression inside an opened group has been parsed and the
\* next token is RightParen, parse_primary consumes it and returns the
\* Grouping node that wraps the tree of the inner expression.
C3_GroupClosedByRightParen ==
    [][(AtClose /\ Peek(tokens, pos) = Some(Tok("RightParen"))) =>
          /\ status' # "panicked"
          /\ ret' = Grouping(ret)
          /\ pos' = pos + 1]_vars

\* C4: when the expression inside an opened group has been parsed and the
\* next token is not RightParen, or there is no next token, the parse
\* fails and no Grouping node is returned.
C4_UnclosedGroupFails ==
    [][(AtClose /\ Peek(tokens, pos) # Some(Tok("RightParen"))) =>
          /\ status' = "panicked"
          /\ ret' = NoExpr]_vars

\* C5: k >= 1 prefix operators (Bang, Minus) followed by one literal parse
\* to k nested Unary nodes, the outermost with the first operator, around
\* the Literal, and exactly the k+1 tokens are consumed.
C5_UnaryChain ==
    (PrefixChain(tokens) /\ Done) =>
        /\ status = "returned"
        /\ ret = UnaryNested(tokens, 1)
        /\ pos = Len(tokens)

C5_Witness ==
    /\ tokens = <<Tok("Bang"), Tok("Bang"), Tok("True")>>
    /\ status = "returned"
    /\ pos = 3
    /\ ret = Unary("Bang", Unary("Bang", Literal(BoolLiteral(TRUE))))

\* C6: a single literal token parses to exactly the Literal node of that
\* token, with no node around it, and exactly one token is consumed.
C6_SingleLiteral ==
    (Len(tokens) = 1 /\ IsLiteralToken(tokens[1]) /\ Done) =>
        /\ status = "returned"
        /\ pos = 1
        /\ ret.kind = "Literal"
        /\ tokens[1] = Tok("False") => ret.lit = BoolLiteral(FALSE)
        /\ tokens[1] = Tok("True") => ret.lit = BoolLiteral(TRUE)
        /\ tokens[1] = Tok("Nil") => ret.lit = NilLiteral
        /\ tokens[1].tag = "NumberLiteral" =>
              ret.lit = NumberLiteral(tokens[1].n)
        /\ tokens[1].tag = "StringLiteral" =>
              ret.lit = StringLiteral(tokens[1].s)

C6_Witness ==
    /\ tokens = <<NumberToken(123)>>
    /\ status = "returned"
    /\ pos = 1
    /\ ret = Literal(NumberLiteral(123))

\* C7: parse of the empty token sequence never returns a tree; it ends in
\* the panic of parse_primary reached with no remaining token.
C7_EmptyFails ==
    tokens = << >> =>
        /\ status # "returned"
        /\ ret = NoExpr
        /\ Done => (status = "panicked" /\ failure = "no_token")

C7_Witness ==
    /\ tokens = << >>
    /\ status = "panicked"
    /\ failure = "no_token"
    /\ pos = 0

\* C8: parse terminates; the cursor never moves backwards; an iteration of
\* the fold loop that continues consumes at least one token; and when the
\* stream is exhausted the loop stops and returns the accumulated expression.
C8_LoopTerminates ==
    /\ <>Done
    /\ [][/\ pos' >= pos
          /\ (AtLoop /\ Len(stack') > Len(stack)) => pos' > pos
          /\ (AtLoop /\ pos = Len(tokens)) =>
                (stack' = Rest /\ ret' = Top.expr /\ status' # "panicked")]_vars

\* C9: every step of the fold loop decides on the token at the cursor: it
\* consumes that token and parses an operand when the level recognizes it,
\* and otherwise (or at the end of the stream) it returns the accumulated
\* expression and leaves the cursor where it is.
C9_DecidesOnCursorToken ==
    [][AtLoop =>
          IF /\ Peek(tokens, pos).some
             /\ MapOperator(Top.level, Peek(tokens, pos).token) # NoOperator
          THEN /\ pos' = pos + 1
               /\ Len(stack') > Len(stack)
          ELSE /\ pos' = pos
               /\ stack' = Rest
               /\ ret' = Top.expr]_vars

\* C10: a leading chain of literals and operators of one level followed by
\* a token that no level recognizes as an operator parses to the tree of
\* the chain, and the tokens after the chain are not consumed.
NoLevelRecognizes(token) ==
    \A level \in BinaryLevels : MapOperator(level, token) = NoOperator

C10_TrailingTokensIgnored ==
    \A level \in BinaryLevels : \A n \in 1..(Len(tokens) - 1) :
        (/\ Chain(tokens, level, n)
         /\ NoLevelRecognizes(tokens[n + 1])
         /\ Done) =>
            /\ status = "returned"
            /\ pos = n
            /\ ret = LeftNested(tokens, level, n)

====
